---- MODULE Spec2Model ----
(***************************************************************************)
(* A model of votify's SpotifyApi (src/votify/spotify_api.py): the session *)
(* bootstrap and lazy token renewal, the resource fetchers, the paginated  *)
(* collection generator extend_track_collection and the lru_cache that     *)
(* wraps get_album.                                                        *)
(*                                                                         *)
(* The client is single threaded.  A call is split at the points where it  *)
(* waits for the network (a request in flight) or sleeps, because that is  *)
(* where the clock advances and where the server chooses its answer.       *)
(***************************************************************************)
EXTENDS Integers, Sequences, FiniteSets, TLC

VARIABLES
    now,            \* time.time() * 1000, in abstract clock units
    session,        \* self.session: [id, cookies, headers]; id = 0 before construction
    session_info,   \* self.session_info: [accessToken, accessTokenExpirationTimestampMs]
    config_info,    \* self.config_info (0 before construction)
    cache,          \* the lru_cache of get_album: <<[key, value]>>, least recently used first
    gen,            \* generator objects of extend_track_collection, by owner
    pc,             \* where the running call is
    frame,          \* arguments and locals of the running call
    inflight,       \* the HTTP request the session is waiting on
    result,         \* what the finished call hands to its caller
    obs,            \* what happened during the running call (events, pre-call state)
    hist            \* per cache key: the value it last returned and the other keys used since

vars == <<now, session, session_info, config_info, cache, gen, pc, frame,
          inflight, result, obs, hist>>

----------------------------------------------------------------------------
(* Bounds of the model *)

MaxTime == 1            \* the clock runs 0..MaxTime
NumIds == 2             \* resource identifiers callers pass: 1..NumIds
MaxPageReqs == 2        \* page requests one generator is followed for
\* functools.lru_cache() keeps maxsize = 128 entries; the model keeps the
\* mechanism and scales the capacity so that eviction is reached.
lru_maxsize == 2
\* The identifier widths, scaled from zfill(32) and zfill(22) to numbers TLC
\* can compute with.  The scaling keeps what the code's widths have:
\* 62^(media_id_width - 1) < 16^gid_width < 62^media_id_width < 16^(gid_width + 1)
\* at the widths as written (62^21 < 16^32 < 62^22 < 16^33 in the code).
gid_width == 2          \* hex digits of a gid; 16^gid_width stands for 2^128
media_id_width == 2     \* base-62 digits of a media id

None == 0               \* Python's None where the model uses numbers (next links)

\* The access tokens and config blobs the server hands out.  The code only
\* stores and sends them, so two of each tell a replaced one from a kept one.
Tokens == {"tokenA", "tokenB"}
Configs == {"configA", "configB"}
Ids == 1 .. NumIds
\* Continuation page URLs.  The code only compares a URL with None, so the
\* pages are named in the order the server first links to them.
PageURLs == 1 .. MaxPageReqs
Expiries == 0 .. (MaxTime + 1)
Statuses == {200, 404, 500}

----------------------------------------------------------------------------
(* Constants of the class *)

SimpleOps == {"get_track", "get_episode", "get_track_credits",
              "get_gid_metadata", "get_playplay_license", "get_stream_urls"}
ExtendOps == {"get_album", "get_playlist", "get_show"}
FetcherOps == SimpleOps \cup ExtendOps \cup {"get_lyrics"}

\* The endpoint each fetcher formats its URL from.
Endpoint(op) ==
    CASE op = "get_track"            -> <<"METADATA_API_URL", "tracks">>
      [] op = "get_album"            -> <<"METADATA_API_URL", "albums">>
      [] op = "get_playlist"         -> <<"METADATA_API_URL", "playlists">>
      [] op = "get_episode"          -> <<"METADATA_API_URL", "episodes">>
      [] op = "get_show"             -> <<"METADATA_API_URL", "shows">>
      [] op = "get_lyrics"           -> <<"LYRICS_API_URL", "">>
      [] op = "get_track_credits"    -> <<"TRACK_CREDITS_API_URL", "">>
      [] op = "get_gid_metadata"     -> <<"GID_METADATA_API_URL", "">>
      [] op = "get_playplay_license" -> <<"PLAYPLAY_LICENSE_API_URL", "">>
      [] OTHER                       -> <<"STREAM_URLS_API_URL", "">>

\* The collection a fetcher extends: album/playlist "tracks", show "episodes".
MediaType(op) == IF op = "get_show" THEN "episodes" ELSE "tracks"

\* The headers _set_session installs (values abbreviated).
FixedHeaders ==
    [h \in {"accept", "accept-language", "content-type", "origin", "priority",
            "referer", "sec-ch-ua", "sec-ch-ua-mobile", "sec-ch-ua-platform",
            "sec-fetch-dest", "sec-fetch-mode", "sec-fetch-site", "user-agent",
            "spotify-app-version", "app-platform"} |->
        CASE h = "accept" -> "application/json"
          [] h = "accept-language" -> "en-US"
          [] h = "content-type" -> "application/json"
          [] h = "origin" -> "https://open.spotify.com/"
          [] h = "priority" -> "u=1, i"
          [] h = "referer" -> "https://open.spotify.com/"
          [] h = "sec-ch-ua" -> "Chrome 127"
          [] h = "sec-ch-ua-mobile" -> "?0"
          [] h = "sec-ch-ua-platform" -> "Windows"
          [] h = "sec-fetch-dest" -> "empty"
          [] h = "sec-fetch-mode" -> "cors"
          [] h = "sec-fetch-site" -> "same-site"
          [] h = "user-agent" -> "Mozilla/5.0"
          [] h = "spotify-app-version" -> "1.2.46.25.g7f189073"
          [] OTHER -> "WebPlayer"]

\* The cookies cookies.txt holds.
CookieFile == {"sp_dc", "sp_key"}

\* f"Bearer {token}"
Bearer(token) == <<"Bearer", token>>
NoAuthorization == <<"", "">>

\* dict.update
Update(d, u) ==
    [k \in (DOMAIN d) \cup (DOMAIN u) |-> IF k \in DOMAIN u THEN u[k] ELSE d[k]]

\* The Authorization header a request of the session carries.
Authorization(s) ==
    IF "Authorization" \in DOMAIN s.headers
    THEN s.headers["Authorization"] ELSE NoAuthorization

----------------------------------------------------------------------------
(* Values *)

NoRequest == [kind |-> "none", url |-> <<"", "", 0>>, auth |-> NoAuthorization,
              sentAt |-> 0]
Request(kind, url, s, t) == [kind |-> kind, url |-> url, auth |-> Authorization(s),
                             sentAt |-> t]

NoValue == [tag |-> "none", op |-> "", id |-> 0, items |-> <<>>, next |-> None]
\* response.json() / response.content of a plain fetcher
Body(op, id) == [tag |-> "body", op |-> op, id |-> id, items |-> <<>>, next |-> None]
\* the embedded collection of an album, playlist or show, or one page of it
Collection(items, next) ==
    [tag |-> "collection", op |-> "", id |-> 0, items |-> items, next |-> next]

NoResult == [kind |-> "none", exc |-> "", value |-> NoValue]
Returned(v) == [kind |-> "return", exc |-> "", value |-> v]
Raised(e) == [kind |-> "raise", exc |-> e, value |-> NoValue]

\* The items the server keeps on a page: the embedded first page is page 0.
PageItems(p) == <<2 * p, 2 * p + 1>>

NoFrame == [op |-> "", id |-> 0, form |-> "", extend |-> FALSE,
            album |-> NoValue, collected |-> <<>>]

NoGen == [st |-> "none", src |-> None, next_url |-> None,
          reqs |-> <<>>, served |-> <<>>, yields |-> <<>>, first |-> None]

NoPage == [session |-> [st |-> "missing", accessToken |-> "",
                        accessTokenExpirationTimestampMs |-> 0],
           config |-> [st |-> "missing", config |-> ""]]

NoObs == [expired |-> FALSE, at |-> 0, log |-> <<>>,
          home |-> [status |-> 0, page |-> NoPage], status |-> 0,
          pre |-> [session_info |-> [accessToken |-> "",
                                     accessTokenExpirationTimestampMs |-> 0],
                   config_info |-> "", auth |-> NoAuthorization,
                   cached |-> FALSE, known |-> NoValue, same |-> {}]]

Event(e, n, a) == [e |-> e, n |-> n, auth |-> a]

----------------------------------------------------------------------------
(* check_response (votify/utils.py, imported at line 14): raises on every  *)
(* status outside the success range and leaves a success untouched.        *)

check_response(status) ==
    IF status \in 200 .. 299 THEN "" ELSE "RemoteRequestFailed"

----------------------------------------------------------------------------
(* Session manager *)

NoSession == [id |-> 0, cookies |-> {}, headers |-> [h \in {} |-> ""]]
NoSessionInfo == [accessToken |-> "", accessTokenExpirationTimestampMs |-> 0]

\* _set_session up to its call of _set_session_auth: a new requests.Session,
\* the cookie file loaded when a path is configured, the fixed headers.
set_session(s, cookies_path) ==
    [id |-> s.id + 1,
     cookies |-> IF cookies_path THEN CookieFile ELSE {},
     headers |-> FixedHeaders]

\* The landing pages the server may answer with: each of the two script
\* blobs is missing, present but not JSON, or present.
SessionBlobs ==
    {[st |-> "missing", accessToken |-> "", accessTokenExpirationTimestampMs |-> 0],
     [st |-> "unparsable", accessToken |-> "", accessTokenExpirationTimestampMs |-> 0]}
    \cup [st : {"ok"}, accessToken : Tokens, accessTokenExpirationTimestampMs : Expiries]
ConfigBlobs ==
    {[st |-> "missing", config |-> ""], [st |-> "unparsable", config |-> ""]}
    \cup [st : {"ok"}, config : Configs]
HomePages == [session : SessionBlobs, config : ConfigBlobs]

\* re.search(...) returns None for a missing blob and .group raises
\* AttributeError; json.loads raises JSONDecodeError on a blob that is not JSON.
blob_error(st) ==
    CASE st = "missing" -> "AttributeError"
      [] st = "unparsable" -> "JSONDecodeError"
      [] OTHER -> ""

\* A _set_session_auth that stores the new session blob but leaves the
\* Authorization header as it was.
set_session_auth_stale_header(page, s, si, ci) ==
    IF blob_error(page.session.st) # ""
    THEN [session |-> s, session_info |-> si, config_info |-> ci,
          exc |-> blob_error(page.session.st)]
    ELSE IF blob_error(page.config.st) # ""
    THEN [session |-> s,
          session_info |-> [accessToken |-> page.session.accessToken,
                            accessTokenExpirationTimestampMs |->
                                page.session.accessTokenExpirationTimestampMs],
          config_info |-> ci, exc |-> blob_error(page.config.st)]
    ELSE [session |-> s,
          session_info |-> [accessToken |-> page.session.accessToken,
                            accessTokenExpirationTimestampMs |->
                                page.session.accessTokenExpirationTimestampMs],
          config_info |-> page.config.config, exc |-> ""]

\* A _set_session_auth that builds a new session for the new token, without
\* the cookies.
set_session_auth_new_session(page, s, si, ci) ==
    IF blob_error(page.session.st) # ""
    THEN [session |-> s, session_info |-> si, config_info |-> ci,
          exc |-> blob_error(page.session.st)]
    ELSE LET si2 == [accessToken |-> page.session.accessToken,
                     accessTokenExpirationTimestampMs |->
                         page.session.accessTokenExpirationTimestampMs]
             s2 == IF s.id = 0 \/ "Authorization" \notin DOMAIN s.headers
                   THEN s ELSE set_session(s, FALSE)
         IN IF blob_error(page.config.st) # ""
            THEN [session |-> s, session_info |-> si2, config_info |-> ci,
                  exc |-> blob_error(page.config.st)]
            ELSE [session |-> [s2 EXCEPT !.headers =
                                  Update(@, [h \in {"Authorization"} |->
                                                 Bearer(si2.accessToken)])],
                  session_info |-> si2, config_info |-> page.config.config,
                  exc |-> ""]

\* _set_session_auth after get_home_page returned `page`: the three
\* assignments in source order, stopping at the first that raises.
set_session_auth(page, s, si, ci) ==
    IF blob_error(page.session.st) # ""
    THEN [session |-> s, session_info |-> si, config_info |-> ci,
          exc |-> blob_error(page.session.st)]
    ELSE LET si2 == [accessToken |-> page.session.accessToken,
                     accessTokenExpirationTimestampMs |->
                         page.session.accessTokenExpirationTimestampMs]
         IN IF blob_error(page.config.st) # ""
            THEN [session |-> s, session_info |-> si2, config_info |-> ci,
                  exc |-> blob_error(page.config.st)]
            ELSE [session |-> [s EXCEPT !.headers =
                                  Update(@, [h \in {"Authorization"} |->
                                                 Bearer(si2.accessToken)])],
                  session_info |-> si2, config_info |-> page.config.config,
                  exc |-> ""]

\* A _refresh_session_auth that renews one clock unit before the expiry.
refresh_needed_early(timestamp_now, si) ==
    ~(timestamp_now + 1 < si.accessTokenExpirationTimestampMs)

\* A _refresh_session_auth that still returns early at the expiry itself
\* (<= for <).
refresh_needed_late(timestamp_now, si) ==
    ~(timestamp_now <= si.accessTokenExpirationTimestampMs)

\* _refresh_session_auth: TRUE when it goes on to _set_session_auth.
refresh_needed(timestamp_now, si) ==
    ~(timestamp_now < si.accessTokenExpirationTimestampMs)

----------------------------------------------------------------------------
(* functools.lru_cache around get_album *)

CallForms == {"default", "positional", "keyword"}

\* The ways get_album(album_id, extend=True) is called: extend left out,
\* passed positionally or passed by keyword.
AlbumCalls ==
    {c \in [id : Ids, form : CallForms, extend : BOOLEAN] :
        c.form = "default" => c.extend}

\* functools._make_key: the positional arguments, then a mark and the
\* keyword arguments; an argument left to its default is in neither.
make_key(id, form, extend) ==
    <<id, form, IF form = "default" THEN "" ELSE IF extend THEN "True" ELSE "False">>

Keys == {make_key(c.id, c.form, c.extend) : c \in AlbumCalls}

\* The position of `key` in the cache, 0 when it is not there.
lru_lookup(c, key) ==
    IF \E i \in 1 .. Len(c) : c[i].key = key
    THEN CHOOSE i \in 1 .. Len(c) : c[i].key = key
    ELSE 0

\* A cache in which a hit does not refresh the entry (first in, first out).
lru_touch_fifo(c, i) == c

\* A hit makes the entry the most recently used one.
lru_touch(c, i) ==
    SubSeq(c, 1, i - 1) \o SubSeq(c, i + 1, Len(c)) \o <<c[i]>>

\* A miss stores the result, evicting the least recently used entry when full.
lru_store(c, key, value) ==
    IF Len(c) >= lru_maxsize
    THEN Append(Tail(c), [key |-> key, value |-> value])
    ELSE Append(c, [key |-> key, value |-> value])

\* History kept for the cache properties: per key the value it last returned,
\* and the distinct other keys that returned since (forgotten once there are
\* lru_maxsize of them).
NoHist == [has |-> FALSE, value |-> NoValue, others |-> {}]
hist_use(h, key, value) ==
    [k \in Keys |->
        IF k = key THEN [has |-> TRUE, value |-> value, others |-> {}]
        ELSE IF h[k].has
             THEN IF Cardinality(h[k].others \cup {key}) >= lru_maxsize
                  THEN NoHist
                  ELSE [h[k] EXCEPT !.others = @ \cup {key}]
             ELSE h[k]]

----------------------------------------------------------------------------
(* Steps shared by the operations *)

HomeURL == <<"SPOTIFY_HOME_PAGE_URL", "", 0>>
ResourceURL(fr) == <<Endpoint(fr.op)[1], Endpoint(fr.op)[2], fr.id>>
PageURL(p) == <<"next", "", p>>

Log(ob, e, n, s) == [ob EXCEPT !.log = Append(@, Event(e, n, Authorization(s)))]

NoKey == <<0, "", "">>

\* The extend flag a key stands for: True when the call left it out.
KeyExtend(key) == key[3] # "False"

\* The values the cache holds for an album and an extend flag, under any
\* way of passing the flag.
SameArguments(c, id, extend) ==
    {c[i].value : i \in {j \in 1 .. Len(c) :
                            c[j].key[1] = id /\ KeyExtend(c[j].key) = extend}}

StartObs(key, id, extend) ==
    [expired |-> (now >= session_info.accessTokenExpirationTimestampMs),
     at |-> now, log |-> <<>>,
     home |-> [status |-> 0, page |-> NoPage], status |-> 0,
     pre |-> [session_info |-> session_info, config_info |-> config_info,
              auth |-> Authorization(session),
              cached |-> (key \in Keys /\ lru_lookup(cache, key) # 0),
              known |-> IF key \in Keys /\ hist[key].has
                        THEN hist[key].value ELSE NoValue,
              same |-> SameArguments(cache, id, extend)]]

\* The continuation items put in front of the first page's.
extend_items_front(items, more) == more \o items

\* list.extend: the items appended in order.
extend_items(items, more) == items \o more

\* An lru_cache wrapper that also stores what a raising call left behind.
Complete_caching_failures(fr, ob, res) ==
    /\ pc' = "done"
    /\ frame' = fr
    /\ obs' = ob
    /\ result' = res
    /\ inflight' = NoRequest
    /\ IF fr.op = "get_album"
       THEN /\ cache' = lru_store(cache, make_key(fr.id, fr.form, fr.extend),
                                  IF res.kind = "return" THEN res.value ELSE fr.album)
            /\ hist' = hist
       ELSE UNCHANGED <<cache, hist>>

\* The call ends: `res` goes to the caller.  A get_album that returns from
\* its body has its result stored by the lru_cache wrapper.
Complete(fr, ob, res) ==
    /\ pc' = "done"
    /\ frame' = fr
    /\ obs' = ob
    /\ result' = res
    /\ inflight' = NoRequest
    /\ IF fr.op = "get_album" /\ res.kind = "return"
       THEN /\ cache' = lru_store(cache, make_key(fr.id, fr.form, fr.extend), res.value)
            /\ hist' = hist_use(hist, make_key(fr.id, fr.form, fr.extend), res.value)
       ELSE UNCHANGED <<cache, hist>>

\* A fetcher from its first line to its first request: _refresh_session_auth,
\* then either the landing-page request of the renewal or the resource request.
BeginFetch(fr, ob) ==
    /\ frame' = fr
    /\ result' = NoResult
    /\ IF refresh_needed(now, session_info)
       THEN /\ inflight' = Request("home", HomeURL, session, now)
            /\ pc' = "wait_home"
            /\ obs' = Log(Log(ob, "check", 0, session), "home", 0, session)
       ELSE /\ inflight' = Request("resource", ResourceURL(fr), session, now)
            /\ pc' = "wait_resource"
            /\ obs' = Log(Log(ob, "check", 0, session), "resource", 0, session)
    /\ UNCHANGED <<now, session, session_info, config_info, cache, gen, hist>>

\* extend_track_collection at its loop test (line 145) with next_url set in G:
\* the generator returns, or requests the next page (line 146).
GenAdvance(g, G, fr, ob) ==
    IF G.next_url = None
    THEN /\ gen' = [gen EXCEPT ![g] = [G EXCEPT !.st = "finished"]]
         /\ IF g = "fetcher"
            THEN LET album == [fr.album EXCEPT
                                   !.items = extend_items(@, fr.collected)]
                 IN Complete([fr EXCEPT !.album = album], ob, Returned(album))
            ELSE Complete(fr, ob, Raised("StopIteration"))
    ELSE /\ gen' = [gen EXCEPT ![g] = [G EXCEPT !.st = "running",
                                                !.reqs = Append(@, G.next_url)]]
         /\ inflight' = Request("page", PageURL(G.next_url), session, now)
         /\ pc' = "wait_page"
         /\ frame' = fr
         /\ obs' = Log(ob, "page", G.next_url, session)
         /\ result' = NoResult
         /\ UNCHANGED <<cache, hist>>

GenSlot(fr) == IF fr.op = "next" THEN "caller" ELSE "fetcher"

----------------------------------------------------------------------------
(* Operations *)

Init ==
    /\ now = 0
    /\ session = NoSession
    /\ session_info = NoSessionInfo
    /\ config_info = ""
    /\ cache = <<>>
    /\ gen = [g \in {"caller", "fetcher"} |-> NoGen]
    /\ pc = "new"
    /\ frame = NoFrame
    /\ inflight = NoRequest
    /\ result = NoResult
    /\ obs = NoObs
    /\ hist = [k \in Keys |-> NoHist]

\* SpotifyApi(cookies_path): _set_session, then the landing-page request of
\* _set_session_auth.
Construct(cookies_path) ==
    /\ pc = "new"
    /\ session' = set_session(session, cookies_path)
    /\ inflight' = Request("home", HomeURL, session', now)
    /\ pc' = "wait_home"
    /\ frame' = [NoFrame EXCEPT !.op = "__init__"]
    /\ obs' = Log(StartObs(NoKey, 0, FALSE), "home", 0, session')
    /\ result' = NoResult
    /\ UNCHANGED <<now, session_info, config_info, cache, gen, hist>>

\* The answers the server may give to the landing-page request.
HomeResponses ==
    [status : Statuses \ {200}, page : {NoPage}] \cup [status : {200}, page : HomePages]

\* The server hands out tokens that are valid when it hands them out.
Fresh(r, t) ==
    r.page.session.st = "ok" => r.page.session.accessTokenExpirationTimestampMs > t

\* get_home_page returns or raises; _set_session_auth goes on; the fetcher
\* that asked for the renewal then issues its resource request.
HomeResponse(responses) ==
    /\ pc = "wait_home"
    /\ \E r \in responses :
        /\ Fresh(r, now)
        /\ LET ob == [obs EXCEPT !.home = r]
           IN IF check_response(r.status) # ""
              THEN /\ Complete(frame, ob, Raised(check_response(r.status)))
                   /\ UNCHANGED <<session, session_info, config_info>>
              ELSE LET a == set_session_auth(r.page, session, session_info,
                                             config_info)
                   IN /\ session' = a.session
                      /\ session_info' = a.session_info
                      /\ config_info' = a.config_info
                      /\ IF a.exc # ""
                         THEN Complete(frame, ob, Raised(a.exc))
                         ELSE IF frame.op = "__init__"
                         THEN Complete(frame, Log(ob, "auth", 0, a.session),
                                       Returned(NoValue))
                         ELSE /\ inflight' = Request("resource", ResourceURL(frame),
                                                     a.session, now)
                              /\ pc' = "wait_resource"
                              /\ obs' = Log(Log(ob, "auth", 0, a.session),
                                            "resource", 0, a.session)
                              /\ UNCHANGED <<frame, result, cache, hist>>
    /\ UNCHANGED <<now, gen>>

\* get_track, get_episode, get_track_credits, get_gid_metadata,
\* get_playplay_license, get_stream_urls and get_lyrics.
CallFetcher(op, id) ==
    /\ pc = "idle"
    /\ BeginFetch([NoFrame EXCEPT !.op = op, !.id = id], StartObs(NoKey, 0, FALSE))

\* get_playlist and get_show.
CallExtending(op, id, extend) ==
    /\ pc = "idle"
    /\ BeginFetch([NoFrame EXCEPT !.op = op, !.id = id, !.extend = extend],
                  StartObs(NoKey, 0, FALSE))

\* get_album through its lru_cache wrapper: a hit returns the stored value
\* and runs nothing of the body.
CallGetAlbum(id, form, extend) ==
    /\ pc = "idle"
    /\ LET key == make_key(id, form, extend)
           i == lru_lookup(cache, key)
           fr == [NoFrame EXCEPT !.op = "get_album", !.id = id, !.form = form,
                                 !.extend = extend]
           ob == StartObs(key, id, extend)
       IN IF i # 0
          THEN /\ pc' = "done"
               /\ frame' = fr
               /\ obs' = ob
               /\ result' = Returned(cache[i].value)
               /\ cache' = lru_touch(cache, i)
               /\ hist' = hist_use(hist, key, cache[i].value)
               /\ UNCHANGED <<now, session, session_info, config_info, gen, inflight>>
          ELSE BeginFetch(fr, ob)

\* A 404 taken for an absent resource whatever the fetcher.
lyrics_not_found_any(op, status) == status = 404

\* get_lyrics answers a 404 with None before check_response sees it.
lyrics_not_found(op, status) == op = "get_lyrics" /\ status = 404

PyNone == [tag |-> "None", op |-> "", id |-> 0, items |-> <<>>, next |-> None]

\* The `next` link the server puts on the embedded first page.
FirstNexts(op) == IF op \in ExtendOps THEN {None, 1} ELSE {None}

\* The response to the resource request: the rest of the fetcher's body.
ResourceResponse(statuses, nexts) ==
    /\ pc = "wait_resource"
    /\ \E status \in statuses, nx \in FirstNexts(frame.op) \cap nexts :
        LET ob == [obs EXCEPT !.status = status]
        IN IF lyrics_not_found(frame.op, status)
           THEN Complete(frame, ob, Returned(PyNone)) /\ gen' = gen
           ELSE IF check_response(status) # ""
           THEN Complete(frame, ob, Raised(check_response(status))) /\ gen' = gen
           ELSE IF frame.op \in ExtendOps
           THEN LET fr == [frame EXCEPT !.album = Collection(PageItems(0), nx)]
                IN IF frame.extend
                   THEN GenAdvance("fetcher",
                                   [NoGen EXCEPT !.first = fr.album.next,
                                                 !.src = fr.album.next,
                                                 !.next_url = fr.album.next],
                                   fr, ob)
                   ELSE Complete(fr, ob, Returned(fr.album)) /\ gen' = gen
           ELSE Complete(frame, ob, Returned(Body(frame.op, frame.id))) /\ gen' = gen
    /\ UNCHANGED <<now, session, session_info, config_info>>

\* A generator that never follows the `next` of a page it fetched.
next_of_none(page) == None

\* A generator that survives the exception and can be pulled again.
gen_after_raise_resumable(G) == [G EXCEPT !.st = "suspended"]

\* extended_collection["next"] (line 150)
next_of(page) == page.next

\* check_response raised inside the generator and nothing catches it: the
\* exception leaves the generator, which is finished from then on.
gen_after_raise(G) == [G EXCEPT !.st = "finished"]

\* The `next` link the server puts on a continuation page: none, a page
\* fetched before, or the next new page.
PageNexts(G) ==
    IF Len(G.reqs) < MaxPageReqs
    THEN {None} \cup {u \in PageURLs : \E i \in 1 .. Len(G.reqs) : u <= G.reqs[i] + 1}
    ELSE {None}

\* The response to a page request (lines 147-150): check_response raises, or
\* the page is yielded; the comprehension of a fetcher pulls again at once.
PageResponse(statuses, nexts) ==
    /\ pc = "wait_page"
    /\ LET g == GenSlot(frame)
           G == gen[g]
       IN \E status \in statuses, nx \in PageNexts(G) \cap nexts :
            LET G1 == [G EXCEPT !.served = Append(@, [url |-> G.next_url,
                                                     status |-> status,
                                                     next |-> nx])]
            IN IF check_response(status) # ""
               THEN /\ gen' = [gen EXCEPT ![g] = gen_after_raise(G1)]
                    /\ Complete(frame, obs, Raised(check_response(status)))
               ELSE LET page == Collection(PageItems(G.next_url), nx)
                        G2 == [G1 EXCEPT !.yields = Append(@, G.next_url),
                                         !.src = next_of(page)]
                        ob == Log(obs, "yield", G.next_url, session)
                    IN IF g = "caller"
                       THEN /\ gen' = [gen EXCEPT ![g] = [G2 EXCEPT !.st = "suspended"]]
                            /\ Complete(frame, ob, Returned(page))
                       ELSE /\ gen' = [gen EXCEPT ![g] = [G2 EXCEPT !.next_url = G2.src]]
                            /\ frame' = [frame EXCEPT !.collected = @ \o page.items]
                            /\ pc' = "sleep"
                            /\ inflight' = NoRequest
                            /\ obs' = ob
                            /\ UNCHANGED <<result, cache, hist>>
    /\ UNCHANGED <<now, session, session_info, config_info>>

\* time.sleep(EXTEND_TRACK_COLLECTION_WAIT_TIME) is over: back to the loop test.
Wake ==
    /\ pc = "sleep"
    /\ GenAdvance(GenSlot(frame), gen[GenSlot(frame)], frame, obs)
    /\ UNCHANGED <<now, session, session_info, config_info>>

\* A caller calls extend_track_collection itself: a generator object is made
\* and nothing of its body runs yet.
CallExtendTrackCollection(nx) ==
    /\ pc = "idle"
    /\ gen' = [gen EXCEPT !["caller"] = [NoGen EXCEPT !.st = "created",
                                                      !.first = nx, !.src = nx]]
    /\ UNCHANGED <<now, session, session_info, config_info, cache, pc, frame,
                   inflight, result, obs, hist>>

\* next(generator) by the caller that made it.
CallNext ==
    /\ pc = "idle"
    /\ gen["caller"].st # "none"
    /\ LET G == gen["caller"]
           fr == [NoFrame EXCEPT !.op = "next"]
           ob == StartObs(NoKey, 0, FALSE)
       IN CASE G.st = "created" ->
                 GenAdvance("caller", [G EXCEPT !.next_url = G.src], fr, ob)
            [] G.st = "suspended" ->
                 /\ gen' = [gen EXCEPT !["caller"] = [G EXCEPT !.next_url = G.src,
                                                              !.st = "running"]]
                 /\ pc' = "sleep"
                 /\ frame' = fr
                 /\ obs' = ob
                 /\ UNCHANGED <<inflight, result, cache, hist>>
            [] OTHER ->
                 /\ gen' = gen
                 /\ Complete(fr, ob, Raised("StopIteration"))
    /\ UNCHANGED <<now, session, session_info, config_info>>

\* The call is over and its caller has the result.  A constructor that
\* raised leaves no object behind.
Return ==
    /\ pc = "done"
    /\ IF frame.op = "__init__" /\ result.kind = "raise"
       THEN /\ pc' = "new"
            /\ session' = NoSession
            /\ session_info' = NoSessionInfo
            /\ config_info' = ""
       ELSE /\ pc' = "idle"
            /\ UNCHANGED <<session, session_info, config_info>>
    /\ frame' = NoFrame
    /\ obs' = NoObs
    /\ result' = NoResult
    /\ gen' = [gen EXCEPT !["fetcher"] = NoGen]
    /\ UNCHANGED <<now, cache, inflight, hist>>

\* The clock advances between calls, while a request is in flight and
\* during the sleep between two pages.
Tick ==
    /\ pc \in {"idle", "wait_home", "wait_resource", "wait_page", "sleep"}
    /\ now < MaxTime
    /\ now' = now + 1
    /\ UNCHANGED <<session, session_info, config_info, cache, gen, pc, frame,
                   inflight, result, obs, hist>>

----------------------------------------------------------------------------
(* Identifier transcoding: media_id_to_gid, gid_to_media_id (lines 103-109) *)
(* A string is a sequence of one-character strings.                        *)

\* base62.CHARSET_INVERTED
CHARSET_INVERTED ==
    <<"0", "1", "2", "3", "4", "5", "6", "7", "8", "9",
      "a", "b", "c", "d", "e", "f", "g", "h", "i", "j", "k", "l", "m",
      "n", "o", "p", "q", "r", "s", "t", "u", "v", "w", "x", "y", "z",
      "A", "B", "C", "D", "E", "F", "G", "H", "I", "J", "K", "L", "M",
      "N", "O", "P", "Q", "R", "S", "T", "U", "V", "W", "X", "Y", "Z">>

\* The digits hex() writes.
HexDigits ==
    <<"0", "1", "2", "3", "4", "5", "6", "7", "8", "9", "a", "b", "c", "d", "e", "f">>

Chars(charset) == {charset[i] : i \in 1 .. Len(charset)}

\* charset.index(ch)
IndexOf(ch, charset) == (CHOOSE i \in 1 .. Len(charset) : charset[i] = ch) - 1

Front(str) == SubSeq(str, 1, Len(str) - 1)
Last(str) == str[Len(str)]

RECURSIVE Pow(_, _)
Pow(b, e) == IF e = 0 THEN 1 ELSE b * Pow(b, e - 1)

RECURSIVE Zeros(_)
Zeros(n) == IF n <= 0 THEN <<>> ELSE <<"0">> \o Zeros(n - 1)

\* str.zfill(width): zeros on the left, after a leading sign.
zfill(str, width) ==
    IF Len(str) >= width THEN str
    ELSE IF str # <<>> /\ str[1] \in {"+", "-"}
    THEN <<str[1]>> \o Zeros(width - Len(str)) \o Tail(str)
    ELSE Zeros(width - Len(str)) \o str

RECURSIVE PositionalValue(_, _)
\* sum of value(x) * BASE ** (l - (i + 1)) over the characters
PositionalValue(str, charset) ==
    IF str = <<>> THEN 0
    ELSE PositionalValue(Front(str), charset) * Len(charset)
             + IndexOf(Last(str), charset)

\* base62.decode(encoded, charset): ValueError on a character that is not in
\* the charset; the empty string decodes to 0.
base62_decode(encoded, charset) ==
    IF \E i \in 1 .. Len(encoded) : encoded[i] \notin Chars(charset)
    THEN [exc |-> "ValueError", value |-> 0]
    ELSE [exc |-> "", value |-> PositionalValue(encoded, charset)]

RECURSIVE Digits(_, _)
\* the divmod loop that writes n > 0 in the charset, most significant first
Digits(n, charset) ==
    IF n <= 0 THEN <<>>
    ELSE Digits(n \div Len(charset), charset) \o <<charset[(n % Len(charset)) + 1]>>

\* base62.encode(n, charset): "0" when the loop wrote nothing.
base62_encode(n, charset) ==
    IF Digits(n, charset) = <<>> THEN <<"0">> ELSE Digits(n, charset)

\* hex(n)[2:] for n >= 0 (base62.decode returns nothing below 0).
hex(n) == IF n = 0 THEN <<"0">> ELSE Digits(n, HexDigits)

\* The value int(_, 16) gives a digit, upper or lower case; -1 for no digit.
HexValue(ch) ==
    CASE ch \in Chars(HexDigits) -> IndexOf(ch, HexDigits)
      [] ch = "A" -> 10 [] ch = "B" -> 11 [] ch = "C" -> 12
      [] ch = "D" -> 13 [] ch = "E" -> 14 [] ch = "F" -> 15
      [] OTHER -> 0 - 1

RECURSIVE HexNumber(_)
HexNumber(str) ==
    IF str = <<>> THEN 0 ELSE HexNumber(Front(str)) * 16 + HexValue(Last(str))

\* int(gid, 16) on strings without blanks and underscores: an optional sign,
\* an optional 0x or 0X, then one digit or more; ValueError otherwise.
int16(gid) ==
    LET signed == gid # <<>> /\ gid[1] \in {"+", "-"}
        body == IF signed THEN Tail(gid) ELSE gid
        prefixed == Len(body) >= 2 /\ body[1] = "0" /\ body[2] \in {"x", "X"}
        digits == IF prefixed THEN SubSeq(body, 3, Len(body)) ELSE body
    IN IF digits = <<>> \/ \E i \in 1 .. Len(digits) : HexValue(digits[i]) < 0
       THEN [exc |-> "ValueError", value |-> 0]
       ELSE [exc |-> "",
             value |-> IF signed /\ gid[1] = "-"
                       THEN 0 - HexNumber(digits) ELSE HexNumber(digits)]

\* A media_id_to_gid that does not pad its result.
media_id_to_gid_unpadded(media_id) ==
    LET d == base62_decode(media_id, CHARSET_INVERTED)
    IN IF d.exc # "" THEN Raised(d.exc) ELSE Returned(hex(d.value))

\* hex(base62.decode(media_id, base62.CHARSET_INVERTED))[2:].zfill(32)
media_id_to_gid(media_id) ==
    LET d == base62_decode(media_id, CHARSET_INVERTED)
    IN IF d.exc # "" THEN Raised(d.exc)
       ELSE Returned(zfill(hex(d.value), gid_width))

\* A gid_to_media_id that encodes with base62's default charset.
gid_to_media_id_default_charset(gid) ==
    LET n == int16(gid)
        CHARSET_DEFAULT == SubSeq(CHARSET_INVERTED, 1, 10)
                               \o SubSeq(CHARSET_INVERTED, 37, 62)
                               \o SubSeq(CHARSET_INVERTED, 11, 36)
    IN IF n.exc # "" THEN Raised(n.exc)
       ELSE Returned(zfill(base62_encode(n.value, CHARSET_DEFAULT), media_id_width))

\* base62.encode(int(gid, 16), charset=base62.CHARSET_INVERTED).zfill(22)
gid_to_media_id(gid) ==
    LET n == int16(gid)
    IN IF n.exc # "" THEN Raised(n.exc)
       ELSE Returned(zfill(base62_encode(n.value, CHARSET_INVERTED), media_id_width))

\* All strings over `chars` of the lengths in `lens`.
Strings(chars, lens) == UNION {[1 .. n -> chars] : n \in lens}

\* The media ids callers pass: over a sample of the alphabet and one
\* character outside it, up to one character longer than a media id.
MediaIdInputs ==
    Strings({"0", "1", "9", "a", "z", "A", "Z", "-"}, 0 .. (media_id_width + 1))

\* The gids callers pass: every string of gid_width lowercase hex digits, and
\* strings over a sample with upper case, a sign, x and a non-digit, up to
\* one character longer than a gid.
GidInputs ==
    Strings(Chars(HexDigits), {gid_width})
        \cup Strings({"0", "1", "f", "F", "g", "-", "x"}, 0 .. (gid_width + 1))

Transcoder(op, str) ==
    IF op = "media_id_to_gid" THEN media_id_to_gid(str) ELSE gid_to_media_id(str)

Inverse(op) ==
    IF op = "media_id_to_gid" THEN "gid_to_media_id" ELSE "media_id_to_gid"

\* A static method is called: no object is needed and none is touched.
\* frame.collected keeps the strings the chain of calls went through.
CallTranscoder(op, str) ==
    /\ pc = "new"
    /\ pc' = "done"
    /\ frame' = [NoFrame EXCEPT !.op = op, !.collected = <<str>>]
    /\ result' = Transcoder(op, str)
    /\ UNCHANGED <<now, session, session_info, config_info, cache, gen,
                   inflight, obs, hist>>

\* The caller passes the returned identifier to the other direction.
CallInverse ==
    /\ pc = "done"
    /\ frame.op \in {"media_id_to_gid", "gid_to_media_id"}
    /\ Len(frame.collected) = 1
    /\ result.kind = "return"
    /\ frame' = [frame EXCEPT !.op = Inverse(frame.op),
                              !.collected = Append(@, result.value)]
    /\ result' = Transcoder(Inverse(frame.op), result.value)
    /\ UNCHANGED <<now, session, session_info, config_info, cache, gen, pc,
                   inflight, obs, hist>>

\* The caller is done with the identifiers.
ReturnStatic ==
    /\ pc = "done"
    /\ frame.op \in {"media_id_to_gid", "gid_to_media_id"}
    /\ pc' = "new"
    /\ frame' = NoFrame
    /\ result' = NoResult
    /\ UNCHANGED <<now, session, session_info, config_info, cache, gen,
                   inflight, obs, hist>>

----------------------------------------------------------------------------
(* Specifications *)

Links == {None} \cup PageURLs

\* The session and every fetcher, under a running clock and a server that
\* answers as it likes.  get_album is called the plain way, for one album.
Next ==
    \/ Construct(TRUE)
    \/ HomeResponse(HomeResponses)
    \/ \E op \in SimpleOps \cup {"get_lyrics"}, id \in Ids : CallFetcher(op, id)
    \/ \E op \in {"get_playlist", "get_show"}, id \in Ids, extend \in BOOLEAN :
          CallExtending(op, id, extend)
    \/ CallGetAlbum(1, "default", TRUE)
    \/ ResourceResponse(Statuses, Links)
    \/ PageResponse(Statuses, Links)
    \/ Wake
    \/ Return
    \/ Tick

Spec == Init /\ [][Next]_vars

\* The landing page of a server that hands out one token that does not expire and one config blob.
GoodHome ==
    {r \in HomeResponses :
        /\ r.status = 200
        /\ r.page.session.st = "ok" /\ r.page.config.st = "ok"
        /\ r.page.session.accessToken = "tokenA"
        /\ r.page.config.config = "configA"
        /\ r.page.session.accessTokenExpirationTimestampMs = MaxTime + 1}

\* Collections: the extending fetchers and the generator used directly.
NextPages ==
    \/ Construct(TRUE)
    \/ HomeResponse(GoodHome)
    \/ \E op \in {"get_playlist", "get_show"}, id \in Ids, extend \in BOOLEAN :
          CallExtending(op, id, extend)
    \/ \E extend \in BOOLEAN : CallGetAlbum(1, "positional", extend)
    \/ ResourceResponse(Statuses, Links)
    \/ PageResponse(Statuses, Links)
    \/ Wake
    \/ \E nx \in {None, 1} : CallExtendTrackCollection(nx)
    \/ CallNext
    \/ Return

SpecPages == Init /\ [][NextPages]_vars

\* The get_album cache: every way of calling get_album, with other calls
\* between, against albums of at most two pages.
NextCache ==
    \/ Construct(TRUE)
    \/ HomeResponse(GoodHome)
    \/ \E id \in Ids : CallFetcher("get_track", id)
    \/ \E c \in AlbumCalls : CallGetAlbum(c.id, c.form, c.extend)
    \/ ResourceResponse(Statuses, {None, 1})
    \/ PageResponse(Statuses, {None})
    \/ Wake
    \/ Return

SpecCache == Init /\ [][NextCache]_vars

\* The landing pages of a server whose tokens expire.
ExpiringHome ==
    {r \in HomeResponses :
        /\ r.status = 200
        /\ r.page.session.st = "ok" /\ r.page.config.st = "ok"
        /\ r.page.session.accessToken = "tokenA"
        /\ r.page.config.config = "configA"}

\* The three extending fetchers on one resource each, with or without extend,
\* under a running clock.
NextExtend ==
    \/ Construct(TRUE)
    \/ HomeResponse(ExpiringHome)
    \/ \E op \in {"get_playlist", "get_show"}, extend \in BOOLEAN :
          CallExtending(op, 1, extend)
    \/ \E extend \in BOOLEAN : CallGetAlbum(1, "positional", extend)
    \/ ResourceResponse(Statuses, Links)
    \/ PageResponse(Statuses, Links)
    \/ Wake
    \/ Return
    \/ Tick

SpecExtend == Init /\ [][NextExtend]_vars

\* Every fetcher called without extension, under a running clock and a
\* server that answers as it likes.
NextFetch ==
    \/ Construct(TRUE)
    \/ HomeResponse(HomeResponses)
    \/ \E op \in SimpleOps \cup {"get_lyrics"}, id \in Ids : CallFetcher(op, id)
    \/ \E op \in {"get_playlist", "get_show"}, id \in Ids :
          CallExtending(op, id, FALSE)
    \/ \E form \in {"positional", "keyword"} : CallGetAlbum(1, form, FALSE)
    \/ ResourceResponse(Statuses, Links)
    \/ Return
    \/ Tick

SpecFetch == Init /\ [][NextFetch]_vars

\* The two static identifier conversions, alone and one after the other.
NextIds ==
    \/ \E media_id \in MediaIdInputs : CallTranscoder("media_id_to_gid", media_id)
    \/ \E gid \in GidInputs : CallTranscoder("gid_to_media_id", gid)
    \/ CallInverse
    \/ ReturnStatic

SpecIds == Init /\ [][NextIds]_vars

----------------------------------------------------------------------------
(* Properties *)

\* How many events of the kinds `es` the running call has logged.
Count(log, es) == Cardinality({i \in 1 .. Len(log) : log[i].e \in es})

\* The first event of a kind in `es` in the log, 0 when there is none.
First(log, es) ==
    IF \E i \in 1 .. Len(log) : log[i].e \in es
    THEN CHOOSE i \in 1 .. Len(log) :
             log[i].e \in es /\ \A j \in 1 .. (i - 1) : log[j].e \notin es
    ELSE 0

Expiry == session_info.accessTokenExpirationTimestampMs

\* C1: when an authenticated request is issued (the resource request of a
\* fetcher, a continuation-page request of the generator), the clock is
\* strictly before the stored expiry of the access token.
C1_SessionValidAtRequest ==
    inflight.kind \in {"resource", "page"} => inflight.sentAt < Expiry

\* C2 as stated: a fetcher called with now >= expiry makes exactly one
\* landing-page request, and its resource request comes after the token,
\* the expiry and the Authorization header were replaced and carries the
\* new token.
C2_ExpiredCallRenewsOnce ==
    (frame.op \in FetcherOps /\ obs.expired) =>
        /\ Count(obs.log, {"home"}) = 1
        /\ \A i \in 1 .. Len(obs.log) :
             obs.log[i].e = "resource" =>
                /\ i = 4
                /\ obs.log[2].e = "home" /\ obs.log[3].e = "auth"
                /\ obs.log[i].auth = Bearer(obs.home.page.session.accessToken)

\* C2, amended: the same for every fetcher call that runs the fetcher's body,
\* that is every call but a get_album served from its cache (which makes no
\* request at all).
C2_ExpiredCallRenewsOnceUnlessCached ==
    (frame.op \in FetcherOps /\ obs.expired) =>
        IF obs.pre.cached
        THEN obs.log = <<>>
        ELSE /\ Count(obs.log, {"home"}) = 1
             /\ obs.log[1].e = "check" /\ obs.log[2].e = "home"
             /\ \A i \in 1 .. Len(obs.log) :
                  obs.log[i].e = "resource" =>
                     /\ i = 4
                     /\ obs.log[3].e = "auth"
                     /\ obs.home.status = 200
                     /\ obs.home.page.session.st = "ok"
                     /\ obs.log[3].auth = Bearer(obs.home.page.session.accessToken)
                     /\ obs.log[i].auth = Bearer(obs.home.page.session.accessToken)
                     /\ (pc = "wait_resource" =>
                           /\ inflight.auth = Bearer(obs.home.page.session.accessToken)
                           /\ session_info.accessToken =
                                  obs.home.page.session.accessToken
                           /\ Expiry =
                                  obs.home.page.session.accessTokenExpirationTimestampMs)

\* C2 witness: a fetcher called after the expiry waits for its resource
\* request, which carries a token other than the one held before the call.
C2_Witness ==
    /\ pc = "wait_resource" /\ frame.op = "get_track" /\ obs.expired
    /\ inflight.auth # obs.pre.auth
    /\ Count(obs.log, {"home"}) = 1

\* C3: a fetcher called with now < expiry makes no landing-page request, and
\* token, expiry, config blob and Authorization header stay as they were
\* before the call, however the call ends.
C3_ValidCallLeavesAuthAlone ==
    (frame.op \in FetcherOps /\ ~obs.expired) =>
        /\ Count(obs.log, {"home", "auth"}) = 0
        /\ session_info = obs.pre.session_info
        /\ config_info = obs.pre.config_info
        /\ Authorization(session) = obs.pre.auth

\* C3 witness: get_playlist, called before the expiry, has returned after
\* fetching continuation pages, the clock having passed the expiry meanwhile.
C3_Witness ==
    /\ pc = "done" /\ frame.op = "get_playlist" /\ ~obs.expired
    /\ result.kind = "return" /\ now >= Expiry
    /\ Count(obs.log, {"page"}) > 0

\* C4: in the generator every continuation-page request directly follows an
\* expiry check of its own, so a page is never requested with a token that
\* expired since the page before.
C4_CheckBeforeEveryPage ==
    \A i \in 1 .. Len(obs.log) :
        obs.log[i].e = "page" =>
            /\ i > 1
            /\ obs.log[i - 1].e \in {"check", "auth"}

MetadataOps == {"get_track", "get_album", "get_playlist", "get_episode", "get_show"}

\* C6: a 404 on the lyrics request makes get_lyrics return None; a 404 on a
\* metadata request raises RemoteRequestFailed; every other status outside
\* the success range raises it on both.
C6_NotFoundIsAbsenceForLyricsOnly ==
    (pc = "done" /\ obs.status # 0 /\ frame.op \in MetadataOps \cup {"get_lyrics"}) =>
        /\ (frame.op = "get_lyrics" /\ obs.status = 404) =>
               result = Returned(PyNone)
        /\ (frame.op \in MetadataOps /\ obs.status = 404) =>
               result = Raised("RemoteRequestFailed")
        /\ (obs.status \notin 200 .. 299 /\ obs.status # 404) =>
               result = Raised("RemoteRequestFailed")

\* C6 witness: get_lyrics has returned None on a 404.
C6_Witness ==
    /\ pc = "done" /\ frame.op = "get_lyrics" /\ obs.status = 404
    /\ result = Returned(PyNone)

\* The generator ended because a page had no `next` (or the first had none).
Exhausted(G) ==
    /\ G.st = "finished"
    /\ \A i \in 1 .. Len(G.served) : G.served[i].status \in 200 .. 299

\* C7: over a chain of n pages of which only the last has no `next`, the
\* generator pulled to its end has requested and yielded exactly the n - 1
\* continuation pages, in chain order and once each; with no `next` on the
\* first page it has requested and yielded nothing.
C7_ExhaustedYieldsTheChain ==
    \A g \in {"caller", "fetcher"} :
        LET G == gen[g]
            n == Len(G.served) + 1
        IN Exhausted(G) =>
            /\ Len(G.reqs) = n - 1
            /\ G.yields = G.reqs
            /\ \A i \in 1 .. (n - 1) :
                 /\ G.reqs[i] = (IF i = 1 THEN G.first ELSE G.served[i - 1].next)
                 /\ G.served[i].url = G.reqs[i]
                 /\ G.reqs[i] # None
            /\ (IF n = 1 THEN G.first ELSE G.served[n - 1].next) = None

\* C7 witness: three chained pages, two yielded, and the pull after them
\* ends the sequence.
C7_Witness ==
    /\ pc = "done" /\ frame.op = "next" /\ result = Raised("StopIteration")
    /\ Exhausted(gen["caller"])
    /\ Len(gen["caller"].served) = 2 /\ Len(gen["caller"].yields) = 2

RECURSIVE ItemsOf(_)
\* The items of the pages in `served`, in order.
ItemsOf(served) ==
    IF served = <<>> THEN <<>>
    ELSE PageItems(Head(served).url) \o ItemsOf(Tail(served))

\* C8 as stated: get_album, get_playlist and get_show return, with extend
\* and every request succeeding, the first page's items followed by the items
\* of every continuation page in page order; without extend they make exactly
\* one request and return the first page's items.
C8_ExtendConcatenatesPages ==
    (pc = "done" /\ frame.op \in ExtendOps /\ result.kind = "return") =>
        IF frame.extend
        THEN \/ obs.pre.cached
             \/ result.value.items =
                    PageItems(0) \o ItemsOf(gen["fetcher"].served)
        ELSE /\ Count(obs.log, {"home", "resource", "page"}) = 1
             /\ result.value.items = PageItems(0)

\* C8, amended: a call that runs the fetcher's body returns, with extend, the
\* first page's items followed by those of every continuation page in page
\* order; without extend it makes exactly one resource request and no page
\* request, after the landing-page request of a renewal when the token had
\* expired, and returns the first page's items.  A get_album served from its
\* cache makes no request and returns the stored album.
C8_ExtendConcatenatesPagesUnlessCached ==
    (pc = "done" /\ frame.op \in ExtendOps /\ result.kind = "return") =>
        IF obs.pre.cached
        THEN obs.log = <<>> /\ result.value = obs.pre.known
        ELSE IF frame.extend
        THEN /\ result.value.items =
                    PageItems(0) \o ItemsOf(gen["fetcher"].served)
             /\ Exhausted(gen["fetcher"])
             /\ Count(obs.log, {"page"}) = Len(gen["fetcher"].served)
        ELSE /\ Count(obs.log, {"resource"}) = 1
             /\ Count(obs.log, {"page"}) = 0
             /\ Count(obs.log, {"home"}) = (IF obs.expired THEN 1 ELSE 0)
             /\ result.value.items = PageItems(0)

\* C8 witness: get_show has returned a collection extended by two pages.
C8_Witness ==
    /\ pc = "done" /\ frame.op = "get_show" /\ frame.extend
    /\ result.kind = "return" /\ Len(gen["fetcher"].served) = 2
    /\ Len(result.value.items) = 3 * Len(PageItems(0))

\* The last page request of the generator was answered outside the success range.
Failed(G) ==
    /\ Len(G.served) > 0
    /\ G.served[Len(G.served)].status \notin 200 .. 299

\* C9: a continuation page answered with a failure raises at that pull, is
\* not yielded, is not requested again and ends the sequence, and no later
\* page is requested; an extending fetcher then raises and returns nothing.
C9_PageFailureEndsTheSequence ==
    \A g \in {"caller", "fetcher"} :
        LET G == gen[g]
        IN Failed(G) =>
            /\ G.st = "finished"
            /\ Len(G.reqs) = Len(G.served)
            /\ Len(G.yields) = Len(G.served) - 1
            /\ \A i \in 1 .. (Len(G.served) - 1) : G.served[i].status \in 200 .. 299
            /\ ~(pc = "wait_page" /\ GenSlot(frame) = g)
            /\ (pc = "done" /\ frame.op # "__init__" /\ GenSlot(frame) = g) =>
                 /\ result.kind = "raise"
                 /\ result.exc = IF Count(obs.log, {"page"}) > 0
                                 THEN "RemoteRequestFailed" ELSE "StopIteration"
                 /\ result.value = NoValue
                 /\ (frame.op = "get_album" =>
                       lru_lookup(cache, make_key(frame.id, frame.form,
                                                  frame.extend)) = 0)

\* C9 witness: an extending fetcher has raised after its second page failed,
\* the first having been collected.
C9_Witness ==
    /\ pc = "done" /\ frame.op = "get_album" /\ Failed(gen["fetcher"])
    /\ Len(gen["fetcher"].served) = 2 /\ Len(frame.collected) > 0
    /\ result = Raised("RemoteRequestFailed")

\* C10: a landing page without the session blob or without the config blob
\* makes the bootstrap fail with AuthenticationBootstrapFailed, which reaches
\* the caller; no other landing page or resource request is made.
C10_MissingBlobRaisesBootstrapFailure ==
    (/\ pc = "done" /\ obs.home.status = 200
     /\ \/ obs.home.page.session.st = "missing"
        \/ obs.home.page.config.st = "missing") =>
        /\ result = Raised("AuthenticationBootstrapFailed")
        /\ Count(obs.log, {"home"}) = 1
        /\ Count(obs.log, {"resource", "page"}) = 0

\* A public identifier of the domain: not empty, over the 62-character
\* alphabet, with a value that fits the gid (128 bits in the code).
ValidPublic(str) ==
    /\ str # <<>>
    /\ \A i \in 1 .. Len(str) : str[i] \in Chars(CHARSET_INVERTED)
    /\ PositionalValue(str, CHARSET_INVERTED) < Pow(16, gid_width)

\* An internal identifier of the domain: gid_width lowercase hex digits.
ValidInternal(str) ==
    /\ Len(str) = gid_width
    /\ \A i \in 1 .. Len(str) : str[i] \in Chars(HexDigits)

\* A hex string that reads as an unsigned number fitting the gid.
HexInDomain(str) ==
    /\ str # <<>>
    /\ \A i \in 1 .. Len(str) : HexValue(str[i]) >= 0
    /\ HexNumber(str) < Pow(16, gid_width)

\* The conversion `op` has run on its own / on the result of the other one.
Converted(op) == pc = "done" /\ frame.op = op /\ Len(frame.collected) = 1
RoundTrip(op) == pc = "done" /\ frame.op = Inverse(op) /\ Len(frame.collected) = 2

\* C11 as stated: for every valid public identifier p, of any length,
\* gid_to_media_id(media_id_to_gid(p)) = p.
C11_PublicRoundTrip ==
    /\ (Converted("media_id_to_gid") /\ ValidPublic(frame.collected[1])) =>
           result.kind = "return"
    /\ (RoundTrip("media_id_to_gid") /\ ValidPublic(frame.collected[1])) =>
           result = Returned(frame.collected[1])

\* C11, amended: for every valid public identifier p of exactly the padded
\* length (22 characters in the code), gid_to_media_id(media_id_to_gid(p)) = p.
C11_PublicRoundTripAtFullLength ==
    /\ (Converted("media_id_to_gid") /\ ValidPublic(frame.collected[1])) =>
           result.kind = "return"
    /\ (/\ RoundTrip("media_id_to_gid") /\ ValidPublic(frame.collected[1])
        /\ Len(frame.collected[1]) = media_id_width) =>
           result = Returned(frame.collected[1])

\* C11 witness: a full-length public identifier with a leading zero digit
\* and a letter has gone through both conversions and come back.
C11_Witness ==
    /\ RoundTrip("media_id_to_gid")
    /\ Len(frame.collected[1]) = media_id_width
    /\ frame.collected[1][1] = "0" /\ Last(frame.collected[1]) = "a"
    /\ result = Returned(frame.collected[1])

\* C12: for every internal identifier i of exactly 32 lowercase hex
\* characters (gid_width here), media_id_to_gid(gid_to_media_id(i)) = i.
C12_InternalRoundTrip ==
    /\ (Converted("gid_to_media_id") /\ ValidInternal(frame.collected[1])) =>
           result.kind = "return"
    /\ (RoundTrip("gid_to_media_id") /\ ValidInternal(frame.collected[1])) =>
           result = Returned(frame.collected[1])

\* C12 witness: an internal identifier with a leading zero and a letter digit
\* has gone through both conversions and come back.
C12_Witness ==
    /\ RoundTrip("gid_to_media_id")
    /\ frame.collected[1][1] = "0" /\ Last(frame.collected[1]) = "f"
    /\ ValidInternal(frame.collected[1])
    /\ result = Returned(frame.collected[1])

\* C13: whenever media_id_to_gid returns, the value is exactly 32 (gid_width)
\* lowercase hex characters, and whenever gid_to_media_id returns, the value
\* is exactly 22 (media_id_width) characters of the base-62 alphabet, on
\* every input.
C13_OutputsHaveFixedWidth ==
    (/\ pc = "done" /\ result.kind = "return"
     /\ frame.op \in {"media_id_to_gid", "gid_to_media_id"}) =>
        IF frame.op = "media_id_to_gid"
        THEN /\ Len(result.value) = gid_width
             /\ \A i \in 1 .. Len(result.value) :
                  result.value[i] \in Chars(HexDigits)
        ELSE /\ Len(result.value) = media_id_width
             /\ \A i \in 1 .. Len(result.value) :
                  result.value[i] \in Chars(CHARSET_INVERTED)

\* C14: both directions fail with InvalidIdentifier, returning nothing, on
\* every input outside their domain: a character outside the alphabet, the
\* empty string, a value that exceeds 128 bits (16^gid_width here).
C14_OutOfDomainRaisesInvalidIdentifier ==
    /\ (Converted("media_id_to_gid") /\ ~ValidPublic(frame.collected[1])) =>
           result = Raised("InvalidIdentifier")
    /\ (Converted("gid_to_media_id") /\ ~HexInDomain(frame.collected[1])) =>
           result = Raised("InvalidIdentifier")

\* A call of a fetcher that does not extend a collection.
NonExtending == frame.op \in FetcherOps /\ ~frame.extend

\* A response outside the success range.
Failure(status) == status # 0 /\ status \notin 200 .. 299

\* C15 as stated: a non-extending fetcher call makes at most one landing-page
\* request and at most one request to its endpoint, whatever the responses;
\* a non-success response ends the call with the failure raised and no
\* further request.
C15_NoRetry ==
    NonExtending =>
        /\ Count(obs.log, {"home"}) <= 1
        /\ Count(obs.log, {"resource"}) <= 1
        /\ Count(obs.log, {"page"}) = 0
        /\ Failure(obs.home.status) =>
               /\ pc = "done" /\ result = Raised("RemoteRequestFailed")
               /\ Count(obs.log, {"resource"}) = 0
        /\ Failure(obs.status) =>
               pc = "done" /\ result = Raised("RemoteRequestFailed")

\* C15, amended: the same, except that a 404 on the lyrics request ends
\* get_lyrics with None returned instead of a failure raised (and still no
\* second request).
C15_NoRetryLyricsAbsent ==
    NonExtending =>
        /\ Count(obs.log, {"home"}) <= 1
        /\ Count(obs.log, {"resource"}) <= 1
        /\ Count(obs.log, {"page"}) = 0
        /\ Failure(obs.home.status) =>
               /\ pc = "done" /\ result = Raised("RemoteRequestFailed")
               /\ Count(obs.log, {"resource"}) = 0
        /\ Failure(obs.status) =>
               /\ pc = "done"
               /\ result = IF frame.op = "get_lyrics" /\ obs.status = 404
                           THEN Returned(PyNone)
                           ELSE Raised("RemoteRequestFailed")

\* C15 witness: get_stream_urls, called after the expiry, has renewed, sent
\* its one request and raised on the failure it got.
C15_Witness ==
    /\ pc = "done" /\ frame.op = "get_stream_urls" /\ obs.expired
    /\ Count(obs.log, {"home"}) = 1 /\ Count(obs.log, {"resource"}) = 1
    /\ obs.status = 500 /\ result = Raised("RemoteRequestFailed")

\* The `next` link the generator holds after its i-th page request (0: the
\* link of the embedded first page).
LinkAfter(G, i) == IF i = 0 THEN G.first ELSE G.served[i].next

C17_RenewalKeepsTheSession ==
    session # NoSession =>
        /\ session.id = 1
        /\ session.cookies = CookieFile
        /\ \A h \in DOMAIN FixedHeaders :
             h \in DOMAIN session.headers /\ session.headers[h] = FixedHeaders[h]
        /\ DOMAIN session.headers \subseteq (DOMAIN FixedHeaders) \cup {"Authorization"}

\* C17 witness: get_episode, called after the expiry, has renewed: token and
\* Authorization header are new, and its request is on the way with the
\* cookies of the construction.
C17_Witness ==
    /\ pc = "wait_resource" /\ frame.op = "get_episode" /\ obs.expired
    /\ Count(obs.log, {"auth"}) = 1
    /\ session_info.accessToken # obs.pre.session_info.accessToken
    /\ Authorization(session) # obs.pre.auth
    /\ session.id = 1 /\ session.cookies = CookieFile

\* C18: in every state after a successful construction, whatever calls were
\* made and however they ended, the Authorization header is "Bearer "
\* followed by the access token of the stored session blob.
C18_HeaderCarriesStoredToken ==
    (pc = "idle" \/ frame.op \in FetcherOps) =>
        Authorization(session) = Bearer(session_info.accessToken)

\* A fetcher call whose renewal got a landing page outside the success range:
\* the failure is raised, token, expiry, config blob and Authorization header
\* are as before the call, no resource request was made, and the token is
\* still expired.
RenewalFailureChangesNothing ==
    (frame.op \in FetcherOps /\ Failure(obs.home.status)) =>
        /\ pc = "done" /\ result = Raised("RemoteRequestFailed")
        /\ session_info = obs.pre.session_info
        /\ config_info = obs.pre.config_info
        /\ Authorization(session) = obs.pre.auth
        /\ Count(obs.log, {"home"}) = 1
        /\ Count(obs.log, {"resource", "page"}) = 0
        /\ now >= Expiry

\* A fetcher is called.
FetcherCalled == pc = "idle" /\ pc' # "idle" /\ frame'.op \in FetcherOps

\* C19 as stated: a renewal whose landing-page request fails changes nothing,
\* and the next fetcher call attempts the renewal again.  The failed call
\* leaves the state it found, the token expired, so the second half says:
\* every fetcher call made while the token is expired starts with the
\* landing-page request.
C19_FailedRenewalIsRetriedByNextCall ==
    /\ []RenewalFailureChangesNothing
    /\ [][(FetcherCalled /\ now >= Expiry) =>
              (pc' = "wait_home" /\ inflight'.kind = "home")]_vars

\* C19, amended: the same, the next call being one that runs its fetcher's
\* body: a get_album answered from its cache makes no request and attempts
\* no renewal.
C19_FailedRenewalIsRetriedUnlessCached ==
    /\ []RenewalFailureChangesNothing
    /\ [][(FetcherCalled /\ now >= Expiry) =>
              \/ pc' = "wait_home" /\ inflight'.kind = "home"
              \/ /\ frame'.op = "get_album" /\ obs'.pre.cached
                 /\ pc' = "done" /\ obs'.log = <<>>]_vars

\* C19 witness: get_gid_metadata, called after the expiry, has raised on the
\* landing page's failure, the old token still stored and in the header.
C19_Witness ==
    /\ pc = "done" /\ frame.op = "get_gid_metadata" /\ obs.expired
    /\ obs.home.status = 500 /\ result = Raised("RemoteRequestFailed")
    /\ session_info = obs.pre.session_info
    /\ Authorization(session) = Bearer(session_info.accessToken)
    /\ now >= Expiry

\* The key of the running get_album call.
FrameKey(fr) == make_key(fr.id, fr.form, fr.extend)

\* An album as a get_album call returns it: the first page, and with extend
\* the items of the pages after it when the first page links to one.
CompleteAlbum(key, value) ==
    /\ value.tag = "collection"
    /\ SubSeq(value.items, 1, Len(PageItems(0))) = PageItems(0)
    /\ IF KeyExtend(key) /\ value.next # None
       THEN Len(value.items) > Len(PageItems(0))
       ELSE value.items = PageItems(0)

\* A get_album call that raised has stored nothing for its key, and whatever
\* the cache holds is an album a call returned, never a failure or an album
\* extended in part.
FailuresAreNotStored ==
    /\ (pc = "done" /\ frame.op = "get_album" /\ result.kind = "raise") =>
           /\ lru_lookup(cache, FrameKey(frame)) = 0
           /\ SameArguments(cache, frame.id, frame.extend) = obs.pre.same
    /\ \A i \in 1 .. Len(cache) : CompleteAlbum(cache[i].key, cache[i].value)

\* get_album is called.
GetAlbumCalled == pc = "idle" /\ pc' # "idle" /\ frame'.op = "get_album"

====
